---- MODULE Spec2Model ----
(***************************************************************************)
(* Model of src/main.py: the background task fetch_feeds (fetch three      *)
(* feeds, broadcast data_store to every connected websocket, sleep) and    *)
(* the per-connection coroutine websocket_endpoint, running as cooperative *)
(* asyncio tasks.  Each action is the code between two awaits.             *)
(***************************************************************************)
EXTENDS Integers, Sequences, FiniteSets, TLC

\* ---- bounds of the model ----
NumClients == 2
TickUnit == 30

\* ---- program constants ----
\* mutation: the loop sleeps half the interval
SleepTooShort == 60 \div 2
SleepSeconds == 60
HttpOk == 200

Handles == 1..NumClients
\* the clock that measures the time since a FETCHING start saturates here
MaxElapsed == 2 * TickUnit
None == "None"

Min(a, b) == IF a < b THEN a ELSE b
Max(a, b) == IF a > b THEN a ELSE b
Range(s) == {s[k] : k \in DOMAIN s}

\* ---- JSON values and the dict operations the code uses ----
\* d.get(k): the value under k, or None when the key is missing
Get(d, k) == IF k \in DOMAIN d THEN d[k] ELSE None
\* d.get(k, default)
GetOr(d, k, default) == IF k \in DOMAIN d THEN d[k] ELSE default
\* d[k] raises KeyError when k is missing; s[0] raises IndexError on an empty list
HasKey(d, k) == k \in DOMAIN d

\* f"M{mag} - {place}": magnitudes and places are modelled by their printed text
FormatQuake(mag, place) == "M" \o mag \o " - " \o place

\* mutation: the list is cut at a feature without "properties" and still assigned
RECURSIVE BuildQuakesPartial(_, _, _)
BuildQuakesPartial(features, k, quakes) ==
    IF k > Len(features) THEN [raised |-> FALSE, value |-> quakes]
    ELSE IF ~HasKey(features[k], "properties") THEN [raised |-> FALSE, value |-> quakes]
    ELSE LET props == features[k]["properties"]
         IN  BuildQuakesPartial(features, k + 1,
                 Append(quakes, FormatQuake(Get(props, "mag"), Get(props, "place"))))

\* lines 39-43: build the list feature by feature; a feature without
\* "properties" raises KeyError and the partly built list is dropped
RECURSIVE BuildQuakes(_, _, _)
BuildQuakes(features, k, quakes) ==
    IF k > Len(features) THEN [raised |-> FALSE, value |-> quakes]
    ELSE IF ~HasKey(features[k], "properties") THEN [raised |-> TRUE, value |-> quakes]
    ELSE LET props == features[k]["properties"]
         IN  BuildQuakes(features, k + 1,
                 Append(quakes, FormatQuake(Get(props, "mag"), Get(props, "place"))))

\* lines 37-43: eq_resp.json() raises on a body that is not JSON
ParseEarthquakes(resp) ==
    IF ~resp.json THEN [raised |-> TRUE, value |-> <<>>]
    ELSE BuildQuakes(GetOr(resp.body, "features", <<>>), 1, <<>>)

\* lines 49-54
ParseWeather(resp) ==
    IF ~resp.json THEN [raised |-> TRUE, value |-> <<>>]
    ELSE IF ~HasKey(resp.body, "current_condition") THEN [raised |-> TRUE, value |-> <<>>]
    ELSE IF Len(resp.body["current_condition"]) = 0 THEN [raised |-> TRUE, value |-> <<>>]
    ELSE LET current == resp.body["current_condition"][1]
         IN  IF ~HasKey(current, "weatherDesc") THEN [raised |-> TRUE, value |-> <<>>]
             ELSE IF Len(current["weatherDesc"]) = 0 THEN [raised |-> TRUE, value |-> <<>>]
             ELSE IF ~HasKey(current["weatherDesc"][1], "value") THEN [raised |-> TRUE, value |-> <<>>]
             ELSE [raised |-> FALSE,
                   value |-> [temp_F |-> Get(current, "temp_F"),
                              description |-> current["weatherDesc"][1]["value"]]]

\* lines 59-63
ParseCrypto(resp) ==
    IF ~resp.json THEN [raised |-> TRUE, value |-> <<>>]
    ELSE IF ~HasKey(resp.body, "bpi") THEN [raised |-> TRUE, value |-> <<>>]
    ELSE IF ~HasKey(resp.body["bpi"], "USD") THEN [raised |-> TRUE, value |-> <<>>]
    ELSE [raised |-> FALSE, value |-> [BTC_USD |-> Get(resp.body["bpi"]["USD"], "rate")]]

\* ---- what the three external feeds can answer in one cycle ----
NetError == [neterr |-> TRUE, status |-> 0, json |-> FALSE, body |-> <<>>]
Http(status, body) == [neterr |-> FALSE, status |-> status, json |-> TRUE, body |-> body]
NotJson == [neterr |-> FALSE, status |-> HttpOk, json |-> FALSE, body |-> <<>>]
NoFeed == [neterr |-> FALSE, status |-> 0, json |-> FALSE, body |-> <<>>]

FeatureA == [properties |-> [mag |-> "4.5", place |-> "10km N of X"]]
FeatureB == [properties |-> [mag |-> "2.1", place |-> "5km S of Y"]]
FeatureNoProps == [id |-> "us1"]

EqResponses ==
    { NetError, Http(503, <<>>),
      Http(HttpOk, [features |-> <<FeatureA, FeatureB>>]),
      Http(HttpOk, [features |-> <<FeatureA, FeatureNoProps>>]) }

WeatherResponses ==
    { NetError, Http(503, <<>>),
      Http(HttpOk, [current_condition |->
                      << [temp_F |-> "72", weatherDesc |-> << [value |-> "Sunny"] >>],
                         [temp_F |-> "45", weatherDesc |-> << [value |-> "Rain"] >>] >>]),
      Http(HttpOk, [current_condition |-> <<>>]) }

CryptoResponses ==
    { NetError, Http(503, <<>>),
      Http(HttpOk, [bpi |-> [USD |-> [rate |-> "64,523.10"]]]),
      NotJson }

Sources == {"earthquakes", "weather", "crypto"}

Parse(src, resp) ==
    CASE src = "earthquakes" -> ParseEarthquakes(resp)
      [] src = "weather" -> ParseWeather(resp)
      [] src = "crypto" -> ParseCrypto(resp)

\* a fetch of one source succeeds when the request returns, with status 200
\* and a payload of the expected shape
FeedOk(src, resp) == ~resp.neterr /\ resp.status = HttpOk /\ ~Parse(src, resp).raised

\* ---- the set operations on clients ----
\* clients.add(ws)
SetAdd(s, ws) == s \cup {ws}
\* clients.remove(ws): raises KeyError when ws is not a member
SetRemove(s, ws) == [raised |-> ws \notin s, value |-> s \ {ws}]
\* mutation: the copy misses one member of the set
ListCopiesDropOne(s) ==
    IF s = {} THEN {<<>>}
    ELSE UNION {{m \in [1..(Cardinality(s) - 1) -> s \ {x}] :
                    \A a, b \in 1..(Cardinality(s) - 1) : m[a] = m[b] => a = b} : x \in s}
\* list(clients): a list of the current members, in the set's iteration order
ListCopies(s) ==
    {m \in [1..Cardinality(s) -> s] : \A a, b \in 1..Cardinality(s) : m[a] = m[b] => a = b}

VARIABLES
    data_store,   \* the module-level dict of the three sections
    clients,      \* the module-level set of connected websockets
    loopPc,       \* where fetch_feeds is suspended
    feed,         \* what the three feeds answer during the current FETCHING phase
    members,      \* list(clients) of the current for loop
    idx,          \* position of the for loop in members (0: not iterating)
    hpc,          \* where each websocket_endpoint coroutine is
    received,     \* number of client messages read by the handlers so far, modulo 2
    sleepLeft,    \* time left of the current asyncio.sleep
    elapsed,      \* time since the last FETCHING phase started (saturating)
    prev,         \* history: data_store when the current FETCHING phase started
    fetchFailed,  \* history: some source failed in this cycle's FETCHING phase
    attempted,    \* history: handles send_json was called on in this phase
    failed,       \* history: handles whose send_json raised in this phase
    delivered,    \* history: handles send_json has returned normally for in this cycle
    bcasts,       \* history: broadcast phases begun since the last FETCHING start
    added,        \* history: handles clients.add has been called with
    removed,      \* history: handles a clients.remove has taken out of the set
    closedAtCopy, \* history: handlers that had seen their disconnect when members was taken
    payloads      \* history: the values of data_store passed to send_json in this cycle

vars == <<data_store, clients, loopPc, feed, members, idx, hpc, received,
          sleepLeft, elapsed, prev, fetchFailed, attempted, failed, delivered, bcasts,
          added, removed, closedAtCopy, payloads>>

loopVars == <<data_store, loopPc, feed, members, idx, sleepLeft,
              prev, fetchFailed, attempted, failed, bcasts, closedAtCopy, payloads>>

Closed == {"closed", "keyerror"}

FetchPcs == {"get_eq", "get_weather", "get_crypto"}

IdleFeed == [earthquakes |-> NoFeed, weather |-> NoFeed, crypto |-> NoFeed]

Init ==
    /\ data_store = [earthquakes |-> <<>>, weather |-> <<>>, crypto |-> <<>>]
    /\ clients = {}
    /\ loopPc = "init"
    /\ feed = IdleFeed
    /\ members = <<>>
    /\ idx = 0
    /\ hpc = [h \in Handles |-> "none"]
    /\ received = 0
    /\ sleepLeft = 0
    /\ elapsed = 0
    /\ prev = data_store
    /\ fetchFailed = FALSE
    /\ attempted = {}
    /\ failed = {}
    /\ delivered = {}
    /\ bcasts = 0
    /\ added = {}
    /\ removed = {}
    /\ closedAtCopy = {}
    /\ payloads = {}

\* ---- fetch_feeds ----

\* lines 68-70, 75: the for loop moves to position k of its list and calls
\* send_json there, or, past the end, falls through to asyncio.sleep(60)
Advance(m, k, att) ==
    IF k > Len(m)
    THEN /\ loopPc' = "sleeping"
         /\ idx' = 0
         /\ sleepLeft' = SleepSeconds
         /\ attempted' = att
         /\ payloads' = IF k = 1 THEN {} ELSE payloads
    ELSE /\ loopPc' = "sending"
         /\ idx' = k
         /\ sleepLeft' = sleepLeft
         /\ attempted' = att \cup {m[k]}
         /\ payloads' = (IF k = 1 THEN {} ELSE payloads) \cup {data_store'}

\* line 68: the FETCHING phase is over (normally or through the except
\* clause); the loop copies the registry and starts iterating the copy
Broadcast ==
    /\ feed' = IdleFeed
    /\ prev' = data_store'
    /\ failed' = {}
    /\ bcasts' = Min(bcasts + 1, 2)
    /\ closedAtCopy' = {h \in Handles : hpc[h] \in Closed}
    /\ \E m \in ListCopies(clients) :
          /\ members' = m
          /\ Advance(m, 1, {})

\* lines 64-65: an exception anywhere in the try block ends the FETCHING phase
Except ==
    /\ data_store' = data_store
    /\ fetchFailed' = TRUE
    /\ Broadcast

\* after one source is handled, the next request is issued, or the try block ends
Continue(next) ==
    IF next = "broadcast"
    THEN Broadcast
    ELSE /\ loopPc' = next
         /\ UNCHANGED <<feed, prev, members, idx, sleepLeft, attempted, failed, bcasts,
                        closedAtCopy, payloads>>

\* mutation: the new quakes are appended to the list of the previous cycles
FetchStepMerge(src, next) ==
    LET resp == feed[src]
    IN  IF resp.neterr THEN Except
        ELSE IF resp.status # HttpOk
        THEN /\ data_store' = data_store
             /\ fetchFailed' = TRUE
             /\ Continue(next)
        ELSE LET parsed == Parse(src, resp)
             IN  IF parsed.raised THEN Except
                 ELSE /\ data_store' = [data_store EXCEPT ![src] =
                            IF src = "earthquakes" THEN @ \o parsed.value ELSE parsed.value]
                      /\ fetchFailed' = fetchFailed
                      /\ Continue(next)

\* mutation: a non-success status is raised as an error (raise_for_status)
FetchStepRaiseForStatus(src, next) ==
    LET resp == feed[src]
    IN  IF resp.neterr THEN Except
        ELSE IF resp.status # HttpOk THEN Except
        ELSE LET parsed == Parse(src, resp)
             IN  IF parsed.raised THEN Except
                 ELSE /\ data_store' = [data_store EXCEPT ![src] = parsed.value]
                      /\ fetchFailed' = fetchFailed
                      /\ Continue(next)

\* lines 35-44, 47-54, 57-63: the awaited get returns or raises; on status 200
\* the payload is parsed and the section assigned
FetchStep(src, next) ==
    LET resp == feed[src]
    IN  IF resp.neterr THEN Except
        ELSE IF resp.status # HttpOk
        THEN /\ data_store' = data_store
             /\ fetchFailed' = TRUE
             /\ Continue(next)
        ELSE LET parsed == Parse(src, resp)
             IN  IF parsed.raised THEN Except
                 ELSE /\ data_store' = [data_store EXCEPT ![src] = parsed.value]
                      /\ fetchFailed' = fetchFailed
                      /\ Continue(next)

\* lines 31-35: top of the while loop up to the first awaited request
BeginFetch ==
    /\ loopPc' = "get_eq"
    /\ feed' \in [earthquakes : EqResponses, weather : WeatherResponses, crypto : CryptoResponses]
    /\ prev' = data_store
    /\ fetchFailed' = FALSE
    /\ elapsed' = 0
    /\ bcasts' = 0
    /\ members' = <<>>
    /\ attempted' = {}
    /\ failed' = {}
    /\ delivered' = {}
    /\ closedAtCopy' = {}
    /\ payloads' = {}
    /\ UNCHANGED <<data_store, clients, idx, sleepLeft, hpc, received, added, removed>>

\* lines 77-80: startup_event creates the task
Startup ==
    /\ loopPc = "init"
    /\ loopPc' = "created"
    /\ UNCHANGED <<data_store, clients, feed, members, idx, hpc, received, sleepLeft,
                   elapsed, prev, fetchFailed, attempted, failed, delivered, bcasts,
                   added, removed, closedAtCopy, payloads>>

\* the task runs for the first time
LoopStart ==
    /\ loopPc = "created"
    /\ BeginFetch

GetEarthquakes ==
    /\ loopPc = "get_eq"
    /\ FetchStep("earthquakes", "get_weather")
    /\ UNCHANGED <<clients, hpc, received, elapsed, delivered, added, removed>>

GetWeather ==
    /\ loopPc = "get_weather"
    /\ FetchStep("weather", "get_crypto")
    /\ UNCHANGED <<clients, hpc, received, elapsed, delivered, added, removed>>

GetCrypto ==
    /\ loopPc = "get_crypto"
    /\ FetchStep("crypto", "broadcast")
    /\ UNCHANGED <<clients, hpc, received, elapsed, delivered, added, removed>>

\* mutation: the quakes are dropped from the store once a push has gone out
SendReturnAndClear ==
    /\ loopPc = "sending"
    /\ data_store' = [data_store EXCEPT !.earthquakes = <<>>]
    /\ UNCHANGED <<clients, feed, members, hpc, received, elapsed,
                   prev, fetchFailed, failed, bcasts, added, removed, closedAtCopy>>
    /\ delivered' = delivered \cup {members[idx]}
    /\ Advance(members, idx + 1, attempted)

\* line 70: send_json returned; the for loop goes on
SendReturn ==
    /\ loopPc = "sending"
    /\ UNCHANGED <<data_store, clients, feed, members, hpc, received, elapsed,
                   prev, fetchFailed, failed, bcasts, added, removed, closedAtCopy>>
    /\ delivered' = delivered \cup {members[idx]}
    /\ Advance(members, idx + 1, attempted)

\* mutation: a failed push is swallowed and the handle stays registered
SendRaiseNoPrune ==
    /\ loopPc = "sending"
    /\ UNCHANGED <<data_store, clients, removed, feed, members, hpc, received, elapsed,
                   prev, fetchFailed, delivered, bcasts, added, closedAtCopy>>
    /\ failed' = failed \cup {members[idx]}
    /\ Advance(members, idx + 1, attempted)

\* mutation: pruning shifts the iteration, so the member after a pruned one is skipped
SendRaiseSkipNext ==
    /\ loopPc = "sending"
    /\ UNCHANGED <<data_store, feed, members, hpc, received, elapsed,
                   prev, fetchFailed, delivered, bcasts, added, closedAtCopy>>
    /\ failed' = failed \cup {members[idx]}
    /\ LET r == SetRemove(clients, members[idx])
       IN  IF r.raised
           THEN /\ loopPc' = "crashed"
                /\ UNCHANGED <<clients, removed, idx, sleepLeft, attempted, payloads>>
           ELSE /\ clients' = r.value
                /\ removed' = removed \cup {members[idx]}
                /\ Advance(members, idx + 2, attempted)

\* lines 71-72: send_json raised; the handle is removed from clients, and a
\* KeyError of that remove leaves the except clause, the for and the while
SendRaise ==
    /\ loopPc = "sending"
    /\ UNCHANGED <<data_store, feed, members, hpc, received, elapsed,
                   prev, fetchFailed, delivered, bcasts, added, closedAtCopy>>
    /\ failed' = failed \cup {members[idx]}
    /\ LET r == SetRemove(clients, members[idx])
       IN  IF r.raised
           THEN /\ loopPc' = "crashed"
                /\ UNCHANGED <<clients, removed, idx, sleepLeft, attempted, payloads>>
           ELSE /\ clients' = r.value
                /\ removed' = removed \cup {members[idx]}
                /\ Advance(members, idx + 1, attempted)

\* line 75: asyncio.sleep(60) is over; the while loop starts the next cycle
SleepReturn ==
    /\ loopPc = "sleeping"
    /\ sleepLeft = 0
    /\ BeginFetch

\* ---- websocket_endpoint ----

\* lines 91-96: a client opens /ws; the coroutine awaits accept
Connect(h) ==
    /\ hpc[h] = "none"
    /\ hpc' = [hpc EXCEPT ![h] = "accepting"]
    /\ UNCHANGED <<clients, received, elapsed, delivered, added, removed>>
    /\ UNCHANGED loopVars

\* mutation: the current data_store is sent to the client as it joins
AcceptAndPush(h) ==
    /\ hpc[h] = "accepting"
    /\ clients' = SetAdd(clients, h)
    /\ added' = added \cup {h}
    /\ hpc' = [hpc EXCEPT ![h] = "open"]
    /\ delivered' = delivered \cup {h}
    /\ UNCHANGED <<received, elapsed, removed>>
    /\ UNCHANGED loopVars

\* lines 96-101: the handshake is done; the handle registers and awaits a message
Accept(h) ==
    /\ hpc[h] = "accepting"
    /\ clients' = SetAdd(clients, h)
    /\ added' = added \cup {h}
    /\ hpc' = [hpc EXCEPT ![h] = "open"]
    /\ UNCHANGED <<received, elapsed, delivered, removed>>
    /\ UNCHANGED loopVars

\* mutation: the handle is registered before the handshake that then fails
AcceptFailAfterAdd(h) ==
    /\ hpc[h] = "accepting"
    /\ clients' = SetAdd(clients, h)
    /\ added' = added \cup {h}
    /\ hpc' = [hpc EXCEPT ![h] = "rejected"]
    /\ UNCHANGED <<received, elapsed, delivered, removed>>
    /\ UNCHANGED loopVars

\* line 96: accept raises; the coroutine ends before registering
AcceptFail(h) ==
    /\ hpc[h] = "accepting"
    /\ hpc' = [hpc EXCEPT ![h] = "rejected"]
    /\ UNCHANGED <<clients, received, elapsed, delivered, added, removed>>
    /\ UNCHANGED loopVars

\* mutation: a client message is answered with the current data_store
ReceiveTextEcho(h) ==
    /\ hpc[h] = "open"
    /\ received' = (received + 1) % 2
    /\ delivered' = delivered \cup {h}
    /\ UNCHANGED <<clients, hpc, elapsed, added, removed>>
    /\ UNCHANGED loopVars

\* lines 99-101: a client message arrives and is dropped
ReceiveText(h) ==
    /\ hpc[h] = "open"
    /\ received' = (received + 1) % 2
    /\ UNCHANGED <<clients, hpc, elapsed, delivered, added, removed>>
    /\ UNCHANGED loopVars

\* mutation: the coroutine ends on disconnect without deregistering
DisconnectNoRemove(h) ==
    /\ hpc[h] = "open"
    /\ hpc' = [hpc EXCEPT ![h] = "closed"]
    /\ UNCHANGED <<clients, removed, received, elapsed, delivered, added>>
    /\ UNCHANGED loopVars

\* lines 102-103: receive_text raises WebSocketDisconnect; the handle
\* deregisters, and a KeyError of that remove ends the coroutine
Disconnect(h) ==
    /\ hpc[h] = "open"
    /\ LET r == SetRemove(clients, h)
       IN  IF r.raised
           THEN /\ hpc' = [hpc EXCEPT ![h] = "keyerror"]
                /\ UNCHANGED <<clients, removed>>
           ELSE /\ hpc' = [hpc EXCEPT ![h] = "closed"]
                /\ clients' = r.value
                /\ removed' = removed \cup {h}
    /\ UNCHANGED <<received, elapsed, delivered, added>>
    /\ UNCHANGED loopVars

\* ---- time ----
Tick ==
    /\ elapsed' = Min(elapsed + TickUnit, MaxElapsed)
    /\ sleepLeft' = IF loopPc = "sleeping" THEN Max(sleepLeft - TickUnit, 0) ELSE sleepLeft
    /\ <<elapsed', sleepLeft'>> # <<elapsed, sleepLeft>>
    /\ UNCHANGED <<data_store, clients, loopPc, feed, members, idx, hpc, received,
                   prev, fetchFailed, attempted, failed, delivered, bcasts,
                   added, removed, closedAtCopy, payloads>>

Next ==
    \/ Startup
    \/ LoopStart
    \/ GetEarthquakes
    \/ GetWeather
    \/ GetCrypto
    \/ SendReturn
    \/ SendRaise
    \/ SleepReturn
    \/ \E h \in Handles : Connect(h)
    \/ \E h \in Handles : Accept(h)
    \/ \E h \in Handles : AcceptFail(h)
    \/ \E h \in Handles : ReceiveText(h)
    \/ \E h \in Handles : Disconnect(h)
    \/ Tick

Spec == Init /\ [][Next]_vars

TypeOK ==
    /\ clients \subseteq Handles
    /\ loopPc \in {"init", "created", "sending", "sleeping", "crashed"} \cup FetchPcs
    /\ idx \in 0..NumClients
    /\ sleepLeft \in 0..SleepSeconds
    /\ received \in 0..1
    /\ elapsed \in 0..MaxElapsed

\* ---- properties ----

\* the step of fetch_feeds that ends a FETCHING phase and takes list(clients)
CopyStep == loopPc \in FetchPcs /\ loopPc' \notin FetchPcs
\* the for loop of the current cycle is over, or was left by an exception
PhaseOver == loopPc \in {"sleeping", "crashed"}
\* the sources whose fetch fails under the answers f
FailingSources(f) == {src \in Sources : ~FeedOk(src, f[src])}

\* C1: removing a handle that is already absent from the registry does not
\* raise: neither the broadcast loop (pruning after a failed push) nor a
\* connection handler (deregistering on disconnect) is ever ended by the
\* KeyError of a second removal.
C1_RemoveAbsentIsNoOp ==
    /\ loopPc # "crashed"
    /\ \A h \in Handles : hpc[h] # "keyerror"

\* C2: the broadcast loop never terminates: from every phase its next step
\* leads to a phase of the cycle FETCHING, BROADCASTING, SLEEPING.
C2_LoopNeverLeavesCycle ==
    [][/\ loopPc \in FetchPcs => loopPc' \in FetchPcs \cup {"sending", "sleeping"}
       /\ loopPc = "sending" => loopPc' \in {"sending", "sleeping"}
       /\ loopPc = "sleeping" => loopPc' \in {"sleeping", "get_eq"}]_vars

\* C3: a push failure to one client does not keep the other members of the
\* cycle's membership copy from getting their push attempt: when the phase
\* is over and some push failed, every member of the copy has been attempted.
C3_FailureDoesNotStopOthers ==
    (PhaseOver /\ failed # {}) => Range(members) \subseteq attempted

\* C4: when exactly one of the three feeds fails in a cycle and the other two
\* succeed, then at the end of the FETCHING phase the two successful sections
\* hold the newly fetched values and the failed one its prior value.
C4_OneFailureIsIsolated ==
    [][(CopyStep /\ Cardinality(FailingSources(feed)) = 1) =>
        \A src \in Sources :
            data_store'[src] = IF FeedOk(src, feed[src])
                               THEN Parse(src, feed[src]).value
                               ELSE prev[src]]_vars

\* C5: the membership copy taken at the start of a BROADCASTING phase is
\* exactly the set of handles added and not yet removed at that instant,
\* each once.
C5_CopyIsRegistryAtThatInstant ==
    [][CopyStep =>
        /\ Range(members') = clients
        /\ Range(members') = added \ removed
        /\ Len(members') = Cardinality(added \ removed)]_vars

C5_Witness ==
    /\ loopPc = "sending"
    /\ removed # {}
    /\ Range(members) = added \ removed

\* C6: a fetch failure never aborts the broadcast phase: in a cycle whose
\* FETCHING phase had a failure, the BROADCASTING phase runs and every member
\* of its membership copy is pushed to.
C6_FetchFailureStillBroadcasts ==
    (fetchFailed /\ PhaseOver) => (bcasts = 1 /\ Range(members) \subseteq attempted)

\* C7: a handle whose handler had observed the disconnect before a broadcast
\* phase took its membership copy is not in that copy and is not pushed to
\* in that phase.
C7_ClosedNotInLaterCopies ==
    /\ closedAtCopy \cap Range(members) = {}
    /\ closedAtCopy \cap attempted = {}

C7_Witness ==
    /\ loopPc = "sending"
    /\ closedAtCopy # {}
    /\ attempted # {}

\* C8: failures are pruned within the cycle that observes them: no handle
\* whose push failed in the current phase is in the registry, in particular
\* when the phase completes.
C8_FailedArePruned == failed \cap clients = {}

C8_Witness ==
    /\ loopPc = "sleeping"
    /\ failed # {}
    /\ clients # {}

\* C9: the phases follow each other only in the order FETCHING, BROADCASTING,
\* SLEEPING, and a FETCHING phase starts after a sleep only when the sleep
\* is over, at least 60 time units after the previous FETCHING start and
\* after exactly one broadcast phase.
C9_SequentialAndPaced ==
    [][/\ loopPc \in FetchPcs =>
            loopPc' \in FetchPcs \cup {"sending", "sleeping"}
       /\ CopyStep => bcasts' = bcasts + 1
       /\ loopPc = "sending" => loopPc' \in {"sending", "sleeping", "crashed"}
       /\ loopPc = "sleeping" => loopPc' \in {"sleeping", "get_eq"}
       /\ (loopPc' = "get_eq" /\ loopPc # "get_eq") => loopPc \in {"created", "sleeping"}
       /\ (loopPc' = "get_weather" /\ loopPc # "get_weather") => loopPc = "get_eq"
       /\ (loopPc' = "get_crypto" /\ loopPc # "get_crypto") => loopPc = "get_weather"
       /\ (loopPc = "sleeping" /\ loopPc' = "get_eq") =>
            (sleepLeft = 0 /\ elapsed >= 60 /\ bcasts = 1)]_vars

C9_Witness ==
    /\ loopPc = "get_eq"
    /\ prev # [earthquakes |-> <<>>, weather |-> <<>>, crypto |-> <<>>]

\* C10: there is no push on join: a snapshot is delivered to a handle only by
\* a push of a broadcast phase whose membership copy contains the handle, and
\* the copy contains only handles that had registered.
C10_NoPushOnJoin ==
    [][\A h \in Handles :
        /\ (h \in delivered' /\ h \notin delivered) =>
              (loopPc = "sending" /\ h = members[idx] /\ h \in added)
        /\ (hpc[h] = "accepting" /\ hpc'[h] = "open") =>
              (h \notin delivered' /\ h \notin attempted')]_vars

C10_Witness ==
    \E h \in Handles : h \in delivered /\ hpc[h] = "open" /\ h \in clients

\* ---- what a response delivers, stated from the payload alone ----

\* the position of the loop while the request to src is awaited
PcOf(src) ==
    CASE src = "earthquakes" -> "get_eq"
      [] src = "weather" -> "get_weather"
      [] src = "crypto" -> "get_crypto"

\* the step of fetch_feeds in which the request to src returns or raises
FetchReturns(src) == loopPc = PcOf(src) /\ loopPc' # loopPc

\* the payload has every key and list element the code reads without a default
ShapeOk(src, body) ==
    CASE src = "earthquakes" ->
            \A k \in DOMAIN GetOr(body, "features", <<>>) :
                "properties" \in DOMAIN body["features"][k]
      [] src = "weather" ->
            /\ "current_condition" \in DOMAIN body
            /\ body["current_condition"] # <<>>
            /\ "weatherDesc" \in DOMAIN body["current_condition"][1]
            /\ body["current_condition"][1]["weatherDesc"] # <<>>
            /\ "value" \in DOMAIN body["current_condition"][1]["weatherDesc"][1]
      [] src = "crypto" ->
            /\ "bpi" \in DOMAIN body
            /\ "USD" \in DOMAIN body["bpi"]

\* the source answers with status 200 and a well-formed JSON payload
Delivers(src, resp) ==
    /\ ~resp.neterr
    /\ resp.status = HttpOk
    /\ resp.json
    /\ ShapeOk(src, resp.body)

\* the section a well-formed payload stands for
Expected(src, body) ==
    CASE src = "earthquakes" ->
            [k \in 1..Len(body.features) |->
                "M" \o body.features[k].properties.mag \o " - "
                    \o body.features[k].properties.place]
      [] src = "weather" ->
            [temp_F |-> body.current_condition[1].temp_F,
             description |-> body.current_condition[1].weatherDesc[1].value]
      [] src = "crypto" ->
            [BTC_USD |-> body.bpi.USD.rate]

\* C11: after a successful fetch of a source its section is exactly what the
\* response stands for: one string "M<mag> - <place>" per feature in feature
\* order and nothing of the previous list, {temp_F, description} of the first
\* current condition, {BTC_USD: rate}.
C11_SectionIsLatestResponse ==
    [][\A src \in Sources :
        (FetchReturns(src) /\ Delivers(src, feed[src])) =>
            data_store'[src] = Expected(src, feed[src].body)]_vars

C11_Witness ==
    /\ data_store.earthquakes = <<"M4.5 - 10km N of X", "M2.1 - 5km S of Y">>
    /\ data_store.weather = [temp_F |-> "72", description |-> "Sunny"]
    /\ data_store.crypto = [BTC_USD |-> "64,523.10"]
    /\ prev.earthquakes # <<>>
    /\ loopPc = "get_weather"
    /\ Delivers("earthquakes", feed.earthquakes)

\* C12: a source that fails leaves its own section at its previous value, and
\* a section is written whole: during and after a FETCHING phase each section
\* is either its value before the phase or the complete value of this cycle's
\* well-formed response, never a partly built one.
C12_StaleOrComplete ==
    [][\A src \in Sources :
        /\ (FetchReturns(src) /\ ~Delivers(src, feed[src])) =>
                data_store'[src] = data_store[src]
        /\ loopPc \in FetchPcs =>
                \/ data_store'[src] = prev[src]
                \/ /\ Delivers(src, feed[src])
                   /\ data_store'[src] = Expected(src, feed[src].body)]_vars

C12_Witness ==
    /\ loopPc = "get_weather"
    /\ ~Delivers("earthquakes", feed.earthquakes)
    /\ prev.earthquakes = <<"M4.5 - 10km N of X", "M2.1 - 5km S of Y">>
    /\ data_store.earthquakes = prev.earthquakes

\* C13: a handle is registered only by its handler's successful accept, once,
\* and leaves the registry at its handler's disconnect or when the broadcast
\* loop prunes it after a failed push, never to return: the registry is the
\* set of handles added and not yet removed, all of them with an open handler.
C13_RegistryLifecycle ==
    [][/\ clients' \subseteq {h \in Handles : hpc'[h] = "open"}
       /\ clients' = added' \ removed'
       /\ \A h \in Handles :
            /\ (h \in clients' /\ h \notin clients) =>
                  (hpc[h] = "accepting" /\ hpc'[h] = "open" /\ h \notin added)
            /\ (h \in clients /\ h \notin clients') =>
                  \/ hpc[h] = "open" /\ hpc'[h] = "closed"
                  \/ loopPc = "sending" /\ h = members[idx] /\ h \in failed']_vars

C13_Witness ==
    /\ \E h \in removed : hpc[h] = "open"
    /\ \E h \in removed : hpc[h] = "closed"

\* C14: all pushes of one cycle carry one snapshot value, the value of the
\* store at the end of that cycle's FETCHING phase: the store is not written
\* between the end of the FETCHING phase and the next one, and nothing is
\* pushed while a FETCHING phase is under way.
C14_OneSnapshotPerCycle ==
    /\ loopPc \in {"sending", "sleeping", "crashed"} =>
          (payloads \subseteq {prev} /\ data_store = prev)
    /\ loopPc \in FetchPcs => (payloads = {} /\ attempted = {} /\ delivered = {})

C14_Witness ==
    /\ loopPc = "sending"
    /\ idx = 2
    /\ payloads = {prev}
    /\ prev.earthquakes # <<>>

\* C15: the connection handlers never write the snapshot, and a client
\* message changes nothing: every step of a handler leaves data_store as it
\* is, a received message leaves the registry and the handlers where they are
\* and causes no push, and data_store changes only in a FETCHING phase.
C15_HandlersLeaveStoreAlone ==
    [][/\ (hpc' # hpc \/ received' # received) => data_store' = data_store
       /\ received' # received =>
            /\ clients' = clients
            /\ hpc' = hpc
            /\ attempted' = attempted
            /\ delivered' = delivered
            /\ payloads' = payloads
       /\ data_store' # data_store => loopPc \in FetchPcs]_vars

C15_Witness ==
    /\ received = 1
    /\ data_store.crypto # <<>>
    /\ \E h \in Handles : hpc[h] = "closed"
    /\ \E h \in Handles : hpc[h] = "open" /\ h \in clients

\* C16: in a broadcast phase every call of send_json is on a member of the
\* phase's membership copy that has not been attempted in this phase, the
\* copy does not change during the phase, and when the phase has run to its
\* end every member has been attempted: each member exactly once, no one else,
\* whatever registers or deregisters meanwhile.
C16_EachMemberOnce ==
    [][/\ (loopPc' = "sending" /\ <<loopPc, idx>> # <<loopPc', idx'>>) =>
            /\ members'[idx'] \notin attempted
            /\ attempted' = attempted \cup {members'[idx']}
       /\ attempted' \subseteq Range(members')
       /\ loopPc' = "sleeping" => attempted' = Range(members')
       /\ (loopPc = "sending" /\ loopPc' \in {"sending", "sleeping"}) =>
            members' = members]_vars

C16_Witness ==
    /\ loopPc = "sleeping"
    /\ members # <<>>
    /\ attempted = Range(members)
    /\ clients \ Range(members) # {}

\* C17: a client that stays connected and whose pushes never fail is pushed a
\* snapshot in every broadcast cycle that starts after it registered: when
\* the for loop of a cycle is over, every member of its copy that is still
\* registered, with its handler still open, has been delivered the snapshot.
C17_HealthyClientPushedEveryCycle ==
    \A h \in Handles :
        (PhaseOver /\ h \in Range(members) /\ hpc[h] = "open" /\ h \in clients) =>
            h \in delivered

\* the source answers, with a status other than 200
StatusFailure(resp) == ~resp.neterr /\ resp.status # HttpOk

\* C18: a non-success status of one source is isolated to it: the step that
\* sees it writes nothing and goes on to request the next source of the order
\* seismic, weather, currency, and in a cycle whose only failures are
\* non-success statuses every other source is written in that same cycle.
C18_StatusFailureIsIsolated ==
    [][/\ \A src \in Sources :
            (FetchReturns(src) /\ StatusFailure(feed[src])) =>
                /\ data_store' = data_store
                /\ src = "earthquakes" => loopPc' = "get_weather"
                /\ src = "weather" => loopPc' = "get_crypto"
                /\ src = "crypto" => loopPc' \in {"sending", "sleeping"}
       /\ (CopyStep /\ \A src \in Sources :
                          StatusFailure(feed[src]) \/ Delivers(src, feed[src])) =>
            \A src \in Sources :
                data_store'[src] = IF Delivers(src, feed[src])
                                   THEN Expected(src, feed[src].body)
                                   ELSE prev[src]]_vars

C18_Witness ==
    /\ loopPc = "get_crypto"
    /\ StatusFailure(feed.earthquakes)
    /\ Delivers("weather", feed.weather)
    /\ prev.weather = <<>>
    /\ data_store.weather = [temp_F |-> "72", description |-> "Sunny"]
    /\ data_store.earthquakes = prev.earthquakes
    /\ prev.earthquakes # <<>>

====
